---- MODULE Spec2Model ----
(***************************************************************************)
(* Model of app/log_generator.py: the OTLPJsonFileExporter (constructor,   *)
(* export, shutdown), the process-wide logger "OTLPJsonFileExporter" its   *)
(* instances share, and the pipeline setup_logging wires around it         *)
(* (producer -> BatchLogRecordProcessor -> exporter.export -> handler).    *)
(* The processor is an SDK class the file only instantiates; it is         *)
(* modelled as a FIFO queue from which any non-empty prefix may be handed  *)
(* to export, which covers every size/time trigger policy.                 *)
(***************************************************************************)
EXTENDS Integers, Sequences, FiniteSets, TLC

\* ---------------------------------------------------------------- bounds
MaxEmits == 4        \* records the producer loop logs
MaxExporters == 2    \* exporters constructed directly (besides setup_logging's)
MaxDirect == 1       \* export calls made directly on such an exporter
MaxShutdowns == 2    \* shutdown calls in all
MaxFaults == 2       \* consecutive failing writes of a transient sink fault

\* ---------------------------------------------------------------- inputs
Paths == {"stdout", "a.log"}

ValidHandlerClasses ==
    {"RotatingFileHandler", "TimedRotatingFileHandler", "WatchedFileHandler"}

\* Names locate() resolves to a class; any other name resolves to None.
LocatableClasses == ValidHandlerClasses \cup {"FileHandler"}

\* The names a caller passes as log_handler_cls: a valid class, a class that
\* is no rotating or watched file handler, and a name that resolves to nothing.
HandlerClassNames == {"RotatingFileHandler", "FileHandler", "no.such.Class"}

VARIABLES
    handlers,       \* logging.getLogger("OTLPJsonFileExporter").handlers
    exporters,      \* the constructed exporters, by index: [log_path]
    processor,      \* index of the exporter setup_logging's processor holds, 0 = none
    queue,          \* records the processor buffers, oldest first
    emitted,        \* number of records the producer logged (records are 1..emitted)
    files,          \* per destination, the lines written to it
    warnings,       \* log_path of each "Failed to write logs to file" warning
    attempts,       \* number of self.logger.info calls export made
    permanent,      \* the sink fails every write from now on
    transientLeft,  \* the next transientLeft writes fail, later ones succeed
    shutdownCalls,  \* per exporter, the number of shutdown() calls
    direct,         \* number of direct export calls made
    result,         \* how the last call ended: "returned" or "raised"
    exportLog       \* history: one entry per export call

vars == <<handlers, exporters, processor, queue, emitted, files, warnings,
          attempts, permanent, transientLeft, shutdownCalls, direct, result,
          exportLog>>

\* ------------------------------------------------------------ pure parts
locate(log_handler_cls) ==
    IF log_handler_cls \in LocatableClasses THEN log_handler_cls ELSE "None"

Reverse(s) == [i \in DOMAIN s |-> s[Len(s) + 1 - i]]

\* Variant of _translate_data: the records leave the encoder newest first.
translate_data_reversed(batch) == [resource_logs |-> Reverse(batch)]

_translate_data(batch) == [resource_logs |-> batch]

MessageToJson(service_request) == <<"json", service_request>>

RECURSIVE Sum(_)
Sum(s) == IF s = <<>> THEN 0 ELSE Head(s) + Sum(Tail(s))

Repeat(x, n) == [i \in 1..n |-> x]

HandlersOn(dest) == Cardinality({i \in DOMAIN handlers : handlers[i].dest = dest})

\* self.logger.info(json_str): every handler of the shared logger emits the
\* line to its own destination.
LoggerInfo(json_str) ==
    [d \in Paths |-> files[d] \o Repeat(json_str, HandlersOn(d))]

\* A sink failure is the failure export can see: self.logger.info raising
\* into the try block.
SinkFails == permanent \/ transientLeft > 0

\* ------------------------------------------------------------- __init__
\* Variant of NeedsHandler: the constructor adds its handler without looking
\* at the handlers the logger already has.
NeedsHandlerAlways == TRUE

\* `if not self.logger.handlers:` -- only a logger without handlers gets one.
NeedsHandler == handlers = <<>>

\* Whether building the handler raises.  The subclass test only assembles
\* `msg` and raises nothing; the object located by name is called whatever
\* the test found: None is not callable, and a class called with
\* (log_path, **log_handler_kwargs) raises when it does not accept them or
\* cannot open the file (accepts = FALSE).
HandlerRaises(log_path, log_handler_cls, accepts) ==
    /\ log_path # "stdout"
    /\ (locate(log_handler_cls) = "None" \/ ~accepts)

\* The handler the constructor builds for a logger that has none.
NewHandler(log_path, log_handler_cls) ==
    IF log_path = "stdout"
    THEN [cls |-> "StreamHandler", dest |-> "stdout"]
    ELSE [cls |-> locate(log_handler_cls), dest |-> log_path]

\* OTLPJsonFileExporter.__init__
OTLPJsonFileExporter(log_path, log_handler_cls, accepts) ==
    LET self == [log_path |-> log_path] IN
    IF NeedsHandler /\ HandlerRaises(log_path, log_handler_cls, accepts)
    THEN /\ result' = "raised"
         /\ UNCHANGED <<handlers, exporters, shutdownCalls>>
    ELSE /\ handlers' = IF NeedsHandler
                        THEN Append(handlers, NewHandler(log_path, log_handler_cls))
                        ELSE handlers
         /\ exporters' = Append(exporters, self)
         /\ shutdownCalls' = Append(shutdownCalls, 0)
         /\ result' = "returned"

\* A caller constructs an exporter directly.
Construct ==
    /\ Len(exporters) < MaxExporters + (IF processor = 0 THEN 0 ELSE 1)
    /\ \E log_path \in Paths, log_handler_cls \in HandlerClassNames,
          accepts \in BOOLEAN :
           OTLPJsonFileExporter(log_path, log_handler_cls, accepts)
    /\ UNCHANGED <<processor, queue, emitted, files, warnings, attempts,
                   permanent, transientLeft, direct, exportLog>>

\* setup_logging: the exporter is built with WatchedFileHandler and handed
\* to a BatchLogRecordProcessor; __main__ calls it once.
setup_logging ==
    /\ processor = 0
    /\ \E export_path \in Paths \ {"stdout"}, accepts \in BOOLEAN :
           OTLPJsonFileExporter(export_path, "WatchedFileHandler", accepts)
    /\ processor' = IF result' = "returned" THEN Len(exporters') ELSE 0
    /\ UNCHANGED <<queue, emitted, files, warnings, attempts, permanent,
                   transientLeft, direct, exportLog>>

\* --------------------------------------------------------------- export
\* Variant of ExceptClause: the warning is logged and the exception raised
\* again.
ExceptClauseReraises(self) ==
    /\ warnings' = Append(warnings, exporters[self].log_path)
    /\ result' = "raised"

\* The `except Exception` clause of export: one warning naming
\* self.log_path, and the call returns.
ExceptClause(self) ==
    /\ warnings' = Append(warnings, exporters[self].log_path)
    /\ result' = "returned"

\* The `try:` body of export: one self.logger.info call, which either
\* reaches every handler or raises into the except clause.
TryWrite(self, json_str) ==
    /\ attempts' = attempts + 1
    /\ IF SinkFails
       THEN /\ transientLeft' = IF permanent \/ transientLeft = 0
                                THEN transientLeft ELSE transientLeft - 1
            /\ files' = files
            /\ ExceptClause(self)
       ELSE /\ files' = LoggerInfo(json_str)
            /\ result' = "returned"
            /\ UNCHANGED <<transientLeft, warnings>>

\* What one export call was given and what it was seen to do.
LogEntry(self, batch, encoded) ==
    [exp |-> self, batch |-> batch, encoded |-> encoded,
     permanent |-> permanent, transientAhead |-> transientLeft,
     afterShutdown |-> shutdownCalls[self] > 0,
     written |-> files' # files, outcome |-> result']

\* OTLPJsonFileExporter.export.  encOk / jsonOk: whether encode_logs and
\* MessageToJson return; both run before the try block, so their exception
\* leaves export.
export(self, batch, encOk, jsonOk) ==
    /\ IF ~(encOk /\ jsonOk)
       THEN /\ result' = "raised"
            /\ UNCHANGED <<files, warnings, attempts, transientLeft>>
       ELSE TryWrite(self, MessageToJson(_translate_data(batch)))
    /\ exportLog' = Append(exportLog, LogEntry(self, batch, encOk /\ jsonOk))

\* ------------------------------------------------------------- shutdown
\* Variant of shutdown: the handlers are closed, and closing them again on a
\* later call raises.
shutdown_closes_handlers(self) ==
    /\ result' = IF shutdownCalls[self] > 0 THEN "raised" ELSE "returned"
    /\ UNCHANGED <<handlers, files, warnings, attempts, transientLeft, exportLog>>

\* OTLPJsonFileExporter.shutdown: a docstring and nothing else.
shutdown(self) ==
    /\ result' = "returned"
    /\ UNCHANGED <<handlers, files, warnings, attempts, transientLeft, exportLog>>

Shutdown ==
    /\ \E self \in DOMAIN exporters :
          /\ Sum(shutdownCalls) < MaxShutdowns
          /\ shutdownCalls' = [shutdownCalls EXCEPT ![self] = @ + 1]
          /\ shutdown(self)
    /\ UNCHANGED <<exporters, processor, queue, emitted, permanent, direct>>

\* ------------------------------------------------------------- pipeline
\* The producer loop of __main__ logs one record; the LoggingHandler on the
\* root logger passes it to the processor, which buffers it.
Emit ==
    /\ processor # 0
    /\ shutdownCalls[processor] = 0
    /\ emitted < MaxEmits
    /\ emitted' = emitted + 1
    /\ queue' = Append(queue, emitted + 1)
    /\ UNCHANGED <<handlers, exporters, processor, files, warnings, attempts,
                   permanent, transientLeft, shutdownCalls, direct, result,
                   exportLog>>

\* The processor hands the oldest n buffered records to its exporter; the
\* batch leaves the buffer however export ends.
Flush ==
    /\ processor # 0
    /\ shutdownCalls[processor] = 0
    /\ \E n \in 1..Len(queue), encOk \in BOOLEAN, jsonOk \in BOOLEAN :
          /\ export(processor, SubSeq(queue, 1, n), encOk, jsonOk)
          /\ queue' = SubSeq(queue, n + 1, Len(queue))
    /\ UNCHANGED <<handlers, exporters, processor, emitted, permanent,
                   shutdownCalls, direct>>

\* A caller holding an exporter it constructed calls export itself; its
\* records (0) are not the producer's.
DirectExport ==
    /\ direct < MaxDirect
    /\ direct' = direct + 1
    /\ \E self \in DOMAIN exporters, encOk \in BOOLEAN, jsonOk \in BOOLEAN :
          /\ self # processor
          /\ export(self, <<0>>, encOk, jsonOk)
    /\ UNCHANGED <<handlers, exporters, processor, queue, emitted, permanent,
                   shutdownCalls>>

\* ------------------------------------------------------------- the sink
\* The destination starts failing: the next k writes raise.
SinkTransient ==
    /\ ~permanent
    /\ transientLeft = 0
    /\ \E k \in 1..MaxFaults : transientLeft' = k
    /\ UNCHANGED <<handlers, exporters, processor, queue, emitted, files,
                   warnings, attempts, permanent, shutdownCalls, direct,
                   result, exportLog>>

\* The destination fails for good: every later write raises.
SinkPermanent ==
    /\ ~permanent
    /\ permanent' = TRUE
    /\ UNCHANGED <<handlers, exporters, processor, queue, emitted, files,
                   warnings, attempts, transientLeft, shutdownCalls, direct,
                   result, exportLog>>

\* ------------------------------------------------------- specification
Init ==
    /\ handlers = <<>>
    /\ exporters = <<>>
    /\ processor = 0
    /\ queue = <<>>
    /\ emitted = 0
    /\ files = [d \in Paths |-> <<>>]
    /\ warnings = <<>>
    /\ attempts = 0
    /\ permanent = FALSE
    /\ transientLeft = 0
    /\ shutdownCalls = <<>>
    /\ direct = 0
    /\ result = "returned"
    /\ exportLog = <<>>

\* The program as __main__ runs it: one setup_logging, the producer loop,
\* the processor's exports, a sink that may fail, shutdown at exit.
NextPipeline ==
    \/ setup_logging
    \/ Emit
    \/ Flush
    \/ Shutdown
    \/ SinkTransient
    \/ SinkPermanent

SpecPipeline == Init /\ [][NextPipeline]_vars

\* The exporter class used directly: constructions in one process, export
\* and shutdown calls on the constructed exporters, a sink that may fail.
NextExporter ==
    \/ Construct
    \/ DirectExport
    \/ Shutdown
    \/ SinkTransient
    \/ SinkPermanent

SpecExporter == Init /\ [][NextExporter]_vars

\* ---------------------------------------------------- claim vocabulary
\* The lines of the destination the shared logger's first handler writes to.
Sink == IF handlers = <<>> THEN <<>> ELSE files[handlers[1].dest]

\* The batch a written line carries, read back from the line itself.
BatchOf(line) == line[2].resource_logs

RECURSIVE Flatten(_)
Flatten(ss) == IF ss = <<>> THEN <<>> ELSE Head(ss) \o Flatten(Tail(ss))

IsWritten(entry) == entry.written

\* The batches handed to export so far, and those whose write was seen.
ExportedBatches == [i \in DOMAIN exportLog |-> exportLog[i].batch]

WrittenLog == SelectSeq(exportLog, IsWritten)

WrittenBatches == [i \in DOMAIN WrittenLog |-> WrittenLog[i].batch]

\* Number of written lines that carry record r.
Occurrences(r) ==
    Cardinality({i \in DOMAIN Sink :
                    \E k \in DOMAIN BatchOf(Sink[i]) : BatchOf(Sink[i])[k] = r})

\* ------------------------------------------------------------------ C1
\* C1 (as claimed): every export call returns normally to its caller, whatever
\* fails inside it (encoding, JSON serialization or the sink write).
C1_ExportAlwaysReturns ==
    \A i \in DOMAIN exportLog : exportLog[i].outcome = "returned"

C3_NoWriteAfterShutdown ==
    \A i \in DOMAIN exportLog :
        exportLog[i].afterShutdown => ~exportLog[i].written

\* ------------------------------------------------------------------ C4
\* C4: a shutdown call on an exporter that was already shut down returns
\* normally, writes nothing and leaves the files, the warnings, the write
\* attempts, the logger's handlers, the sink state and the export history as
\* they were.
C4_SecondShutdownChangesNothing ==
    [][\A self \in DOMAIN shutdownCalls :
          (/\ self \in DOMAIN shutdownCalls'
           /\ shutdownCalls[self] >= 1
           /\ shutdownCalls'[self] = shutdownCalls[self] + 1)
          => /\ result' = "returned"
             /\ UNCHANGED <<files, warnings, attempts, handlers, exporters,
                            permanent, transientLeft, exportLog, queue>>]_vars

\* An exporter whose export wrote a line was then shut down twice.
C4_Witness ==
    \E i \in DOMAIN exportLog :
        /\ exportLog[i].written
        /\ ~exportLog[i].afterShutdown
        /\ shutdownCalls[exportLog[i].exp] >= 2

\* ------------------------------------------------------------------ C5
\* C5 (as claimed, max_retries = 3): a batch exported while the sink fails
\* transiently for at most max_retries more writes is retried until a write
\* succeeds, so it is written.
C5_TransientFailureRetried ==
    \A i \in DOMAIN exportLog :
        (/\ exportLog[i].encoded
         /\ ~exportLog[i].permanent
         /\ exportLog[i].transientAhead <= 3)
        => exportLog[i].written

C9_NoInvalidHandlerAdded ==
    \A i \in DOMAIN handlers :
        handlers[i].cls \in ValidHandlerClasses \cup {"StreamHandler"}

\* ----------------------------------------------------------------- C10
C10_Inv ==
    /\ Len(handlers) <= 1
    /\ exporters # <<>> =>
          /\ Len(handlers) = 1
          /\ handlers[1].dest = exporters[1].log_path
    /\ \A d \in Paths :
          files[d] # <<>> => exporters # <<>> /\ d = exporters[1].log_path
    /\ [i \in DOMAIN Sink |-> BatchOf(Sink[i])] = WrittenBatches
    /\ \A i \in DOMAIN exportLog :
          (/\ exportLog[i].encoded
           /\ ~exportLog[i].permanent
           /\ exportLog[i].transientAhead = 0) => exportLog[i].written

\* C10: the shared logger never carries more than one handler; the handler is
\* the one the first successful construction installed and no later
\* construction adds to or replaces it; every export of every exporter whose
\* encoding and write succeed puts its payload exactly once into the first
\* exporter's destination and nothing anywhere else.
C10_SingleSharedHandler ==
    /\ []C10_Inv
    /\ [][handlers # <<>> => handlers' = handlers]_vars

\* A second exporter with another log_path exists, and its export was written
\* to the first exporter's destination.
C10_Witness ==
    /\ Len(exporters) >= 2
    /\ exporters[2].log_path # exporters[1].log_path
    /\ \E i \in DOMAIN exportLog : exportLog[i].exp = 2 /\ exportLog[i].written
    /\ files[exporters[1].log_path] # <<>>

====
